---- MODULE Spec2Model ----
(***************************************************************************)
(* Model of EllipMap (extract_pdfdata-checkpoint.py): construction from    *)
(* the text of a Gaertner 2D ellipsometer report, and interp_grid.         *)
(*                                                                         *)
(* The text is a sequence of tokens in document order; each token is one   *)
(* place where one of the source's regular expressions can match.  A       *)
(* string is a sequence of one-character strings.  A float is an integer   *)
(* numerator over the fixed denominator Den, or NaN.                       *)
(***************************************************************************)
EXTENDS Integers, Sequences, FiniteSets, TLC

\* Largest number of samples in a report of the model.
MaxSamples == 3
\* Largest grid resolution ptnum passed to interp_grid.
MaxP == 3

RECURSIVE Fact(_)
Fact(n) == IF n <= 1 THEN 1 ELSE n * Fact(n - 1)

Max2(a, b) == IF a >= b THEN a ELSE b

\* Every float of the model is a multiple of 1/Den: one decimal digit,
\* divided at most once by an index gap or by ptnum - 1.
Den == 10 * Fact(Max2(MaxSamples, MaxP))

-----------------------------------------------------------------------------
(* Strings and float()                                                     *)

Digits == {"0", "1", "2", "3", "4", "5", "6", "7", "8", "9"}

DigitVal(c) ==
    CASE c = "0" -> 0 [] c = "1" -> 1 [] c = "2" -> 2 [] c = "3" -> 3
      [] c = "4" -> 4 [] c = "5" -> 5 [] c = "6" -> 6 [] c = "7" -> 7
      [] c = "8" -> 8 [] c = "9" -> 9

IsDigits(s) == Len(s) >= 1 /\ \A i \in 1..Len(s) : s[i] \in Digits

RECURSIVE IntOf(_)
IntOf(s) == IF s = <<>> THEN 0
            ELSE 10 * IntOf(SubSeq(s, 1, Len(s) - 1)) + DigitVal(s[Len(s)])

\* The first n characters of s (a numpy '<Un' cell keeps no more).
Take(s, n) == SubSeq(s, 1, IF n < Len(s) THEN n ELSE Len(s))

\* str(np.nan), which line 100 assigns into the string array
nan_str == <<"n", "a", "n">>

NaN == [nan |-> TRUE, v |-> 0]
Num(n) == [nan |-> FALSE, v |-> n]

\* digits, or digits "." digit
IsDecimal(s) ==
    \/ IsDigits(s)
    \/ /\ Len(s) >= 3
       /\ s[Len(s) - 1] = "."
       /\ s[Len(s)] \in Digits
       /\ IsDigits(SubSeq(s, 1, Len(s) - 2))

\* float(s) succeeds
FloatOk(s) == s = nan_str \/ IsDecimal(s)

\* float(s), for the strings on which it succeeds
FloatOf(s) ==
    IF s = nan_str THEN NaN
    ELSE IF IsDigits(s) THEN Num(IntOf(s) * Den)
    ELSE Num(IntOf(SubSeq(s, 1, Len(s) - 2)) * Den
             + DigitVal(s[Len(s)]) * (Den \div 10))

\* np.array(strs).astype(float): every string converts, or ValueError
AsTypeOk(strs) == \A i \in 1..Len(strs) : FloatOk(strs[i])
AsType(strs) == [i \in 1..Len(strs) |-> FloatOf(strs[i])]

-----------------------------------------------------------------------------
(* The text and the regular expressions                                    *)

\* A token is one place where a pattern of the source can match: a label
\* followed by its capture, or a literal phrase.
Tok(label, cap) == [label |-> label, cap |-> cap, lit |-> ""]
Lit(phrase) == [label |-> "literal", cap |-> <<>>, lit |-> phrase]

patt_stddev == "StdDev"
patt_mean == "Mean"
patt_rad == "R"
patt_theta == "Theta"
\* r"Thick1=\s*(.*?),|No Soution": the labelled capture, or the phrase
patt_thick_label == "Thick1"
patt_thick_phrase == "No Soution"

\* re.search(patt, text): the index of the first match, 0 for None
RECURSIVE SearchFrom(_, _, _)
SearchFrom(label, txt, i) ==
    IF i > Len(txt) THEN 0
    ELSE IF txt[i].label = label THEN i
    ELSE SearchFrom(label, txt, i + 1)

\* A variant that falls back on the last token when nothing matches.
re_search_or_last(label, txt) ==
    IF SearchFrom(label, txt, 1) = 0 THEN Len(txt)
    ELSE SearchFrom(label, txt, 1)

re_search(label, txt) == SearchFrom(label, txt, 1)

\* A variant that keeps the first match only, as re.search would.
re_findall_first(label, txt) ==
    IF SearchFrom(label, txt, 1) = 0 THEN <<>>
    ELSE <<txt[SearchFrom(label, txt, 1)].cap>>

\* re.findall(patt, text) for a pattern with one group: the captures of the
\* matches, in document order
RECURSIVE re_findall(_, _)
re_findall(label, txt) ==
    IF txt = <<>> THEN <<>>
    ELSE IF Head(txt).label = label
         THEN <<Head(txt).cap>> \o re_findall(label, Tail(txt))
         ELSE re_findall(label, Tail(txt))

\* A variant in which a match of the phrase contributes no entry.
ThickMatchCapturesOnly(t) ==
    IF t.label = patt_thick_label THEN <<t.cap>> ELSE <<>>

\* What one token contributes to re.findall(patt_thick, text): the capture
\* of a Thick1= match; the empty string for a match of the phrase (its
\* group did not take part); nothing when neither alternative matches.
ThickMatch(t) ==
    IF t.label = patt_thick_label THEN <<t.cap>>
    ELSE IF t.label = "literal" /\ t.lit = patt_thick_phrase THEN << <<>> >>
    ELSE <<>>

RECURSIVE re_findall_thick(_)
re_findall_thick(txt) ==
    IF txt = <<>> THEN <<>>
    ELSE ThickMatch(Head(txt)) \o re_findall_thick(Tail(txt))

-----------------------------------------------------------------------------
(* Lines 99-114: the thickness series                                      *)

RECURSIVE MaxLen(_)
MaxLen(strs) ==
    IF strs = <<>> THEN 0 ELSE Max2(Len(Head(strs)), MaxLen(Tail(strs)))

\* The item width of np.array(strs) of dtype '<Un' (n is at least 1)
ItemWidth(strs) == Max2(1, MaxLen(strs))

\* matches_thick[matches_thick == ''] = np.nan : the empty cells receive
\* str(np.nan) cut to the array's item width
MarkMissing(strs) ==
    [i \in 1..Len(strs) |->
        IF strs[i] = <<>> THEN Take(nan_str, ItemWidth(strs)) ELSE strs[i]]

\* np.flatnonzero(~mask)
RECURSIVE ValidFrom(_, _)
ValidFrom(arr, i) ==
    IF i > Len(arr) THEN <<>>
    ELSE IF arr[i].nan THEN ValidFrom(arr, i + 1)
    ELSE <<i>> \o ValidFrom(arr, i + 1)

flatnonzero_valid(arr) == ValidFrom(arr, 1)

\* the largest j with xp[j] <= x, for xp increasing and xp[1] <= x
RECURSIVE Below(_, _, _)
Below(x, xp, j) ==
    IF j < Len(xp) /\ xp[j + 1] <= x THEN Below(x, xp, j + 1) ELSE j

\* A variant that extrapolates the end segments instead of clamping.
np_interp_extrapolate(x, xp, fp) ==
    IF Len(xp) = 1 THEN fp[1]
    ELSE LET j == IF x <= xp[1] THEN 1
                  ELSE IF x >= xp[Len(xp)] THEN Len(xp) - 1
                  ELSE Below(x, xp, 1)
         IN  fp[j] + ((x - xp[j]) * (fp[j + 1] - fp[j])) \div (xp[j + 1] - xp[j])

\* np.interp(x, xp, fp) at one point, for xp increasing and not empty
np_interp(x, xp, fp) ==
    IF x <= xp[1] THEN fp[1]
    ELSE IF x >= xp[Len(xp)] THEN fp[Len(xp)]
    ELSE LET j == Below(x, xp, 1)
         IN  fp[j] + ((x - xp[j]) * (fp[j + 1] - fp[j])) \div (xp[j + 1] - xp[j])

\* A variant that fills only the gaps that have a valid entry on both sides.
RepairInterior(arr) ==
    LET xp == flatnonzero_valid(arr)
        fp == [k \in 1..Len(xp) |-> arr[xp[k]].v]
    IN  [i \in 1..Len(arr) |->
            IF arr[i].nan /\ xp[1] < i /\ i < xp[Len(xp)]
            THEN Num(np_interp(i, xp, fp)) ELSE arr[i]]

\* self.thick_arr[mask] = np.interp(flatnonzero(mask), flatnonzero(~mask),
\*                                  self.thick_arr[~mask])
Repair(arr) ==
    LET xp == flatnonzero_valid(arr)
        fp == [k \in 1..Len(xp) |-> arr[xp[k]].v]
    IN  [i \in 1..Len(arr) |->
            IF arr[i].nan THEN Num(np_interp(i, xp, fp)) ELSE arr[i]]

\* np.interp raises ValueError when xp is empty
RepairOk(arr) == flatnonzero_valid(arr) # <<>>

-----------------------------------------------------------------------------
(* EllipMap.__init__                                                       *)

NoExc == [type |-> "none", line |-> 0, labels |-> {}]
\* An exception: its type, the line that raises it, and the field labels
\* its message names.  Every exception of this code comes from a library
\* call (None.group, float, np.interp, ...), whose message names no label.
Exc(type, line) == [type |-> type, line |-> line, labels |-> {}]

\* the attributes of a new object before any assignment
Blank == [exc |-> NoExc, attrs |-> {}, stddev |-> Num(0), mean |-> Num(0),
          rad_arr |-> <<>>, theta_arr |-> <<>>, thick_arr |-> <<>>,
          matches_thick |-> <<>>]

\* np.radians of an array of degrees: the result is in units of pi/Den
np_radians(arr) == [i \in 1..Len(arr) |-> Num(arr[i].v \div 180)]

\* The state of self when __init__ returns or raises, the exception, and
\* what re.findall returned for the thickness pattern at line 99 (once that
\* line has run).
EllipMap_init(all_content) ==
    LET m_std  == re_search(patt_stddev, all_content)
        m_mean == re_search(patt_mean, all_content)
        matches_rad   == re_findall(patt_rad, all_content)
        matches_theta == re_findall(patt_theta, all_content)
        found_thick   == re_findall_thick(all_content)
        matches_thick == MarkMissing(found_thick)
        s1 == [Blank EXCEPT !.attrs = {"stddev"},
                            !.stddev = FloatOf(all_content[m_std].cap)]
        s2 == [s1 EXCEPT !.attrs = @ \cup {"mean"},
                         !.mean = FloatOf(all_content[m_mean].cap)]
        s3 == [s2 EXCEPT !.attrs = @ \cup {"rad_arr"},
                         !.rad_arr = AsType(matches_rad),
                         !.matches_thick = found_thick]
        s4 == [s3 EXCEPT !.attrs = @ \cup {"theta_arr"},
                         !.theta_arr = np_radians(AsType(matches_theta))]
        s5 == [s4 EXCEPT !.attrs = @ \cup {"thick_arr"},
                         !.thick_arr = AsType(matches_thick)]
    IN  IF m_std = 0
          THEN [Blank EXCEPT !.exc = Exc("AttributeError", 89)]
        ELSE IF ~FloatOk(all_content[m_std].cap)
          THEN [Blank EXCEPT !.exc = Exc("ValueError", 89)]
        ELSE IF m_mean = 0
          THEN [s1 EXCEPT !.exc = Exc("AttributeError", 90)]
        ELSE IF ~FloatOk(all_content[m_mean].cap)
          THEN [s1 EXCEPT !.exc = Exc("ValueError", 90)]
        ELSE IF ~AsTypeOk(matches_rad)
          THEN [s2 EXCEPT !.exc = Exc("ValueError", 103),
                          !.matches_thick = found_thick]
        ELSE IF ~AsTypeOk(matches_theta)
          THEN [s3 EXCEPT !.exc = Exc("ValueError", 104)]
        ELSE IF ~AsTypeOk(matches_thick)
          THEN [s4 EXCEPT !.exc = Exc("ValueError", 109)]
        ELSE IF ~RepairOk(s5.thick_arr)
          THEN [s5 EXCEPT !.exc = Exc("ValueError", 111)]
        ELSE [s5 EXCEPT !.thick_arr = Repair(s5.thick_arr)]

-----------------------------------------------------------------------------
(* The texts of the model                                                  *)

RECURSIVE Flatten(_)
Flatten(ss) == IF ss = <<>> THEN <<>> ELSE Head(ss) \o Flatten(Tail(ss))

s_1 == <<"1">>
s_2 == <<"2">>
s_5 == <<"5">>
s_0 == <<"0">>
s_90 == <<"9", "0">>
s_180 == <<"1", "8", "0">>
s_2_5 == <<"2", ".", "5">>
s_10_0 == <<"1", "0", ".", "0">>
s_20_0 == <<"2", "0", ".", "0">>
s_bad == <<"-", "-">>

One(t) == <<t>>

\* A thickness item is a reading, in a narrow or a wide spelling, or a
\* no-solution phrase in either of the two spellings the repository uses.
ThickItems == {One(Tok("Thick1", s_5)), One(Tok("Thick1", s_10_0)),
               One(Tok("Thick1", s_20_0)),
               One(Lit("No Solution")), One(Lit("No Soution"))}

\* the samples whose fields are drawn from coords and items
SamplesOf(coords, items) == {c \o k : c \in coords, k \in items}

BodiesOf(samples, lens) ==
    UNION {{Flatten(f) : f \in [1..n -> samples]} : n \in lens}

ScalarsOk == <<Tok("StdDev", s_2_5), Tok("Mean", s_10_0)>>

\* reports whose samples may lack a coordinate, with every thickness item
ParseSamples == SamplesOf({<<Tok("R", s_2), Tok("Theta", s_90)>>,
                           One(Tok("R", s_2))},
                          ThickItems)
ParseTexts == {ScalarsOk \o b : b \in BodiesOf(ParseSamples, 0..MaxSamples)}

\* well-formed reports over several sites
GridSamples == SamplesOf({<<Tok("R", r), Tok("Theta", t)>> :
                              r \in {s_1, s_2}, t \in {s_0, s_90, s_180}},
                         {One(Tok("Thick1", s_10_0))})
GridTexts == {ScalarsOk \o b : b \in BodiesOf(GridSamples, {MaxSamples})}

\* reports whose summary statistics are absent or unparseable
ScalarOpts(label) == {<<>>, One(Tok(label, s_2_5)), One(Tok(label, s_bad))}
ScalarTexts == {sd \o mn \o b : sd \in ScalarOpts("StdDev"),
                                mn \in ScalarOpts("Mean"),
                                b \in BodiesOf(ParseSamples,
                                               0..(MaxSamples - 1))}

Texts == ParseTexts \cup GridTexts \cup ScalarTexts

-----------------------------------------------------------------------------
(* EllipMap.interp_grid                                                    *)

\* An angle of the model is a whole number of quarter turns, in units of
\* pi/Den; np.cos and np.sin of it
Quarter(t) == (t \div (Den \div 2)) % 4
np_cos(t) == CASE Quarter(t) = 0 -> 1 [] Quarter(t) = 1 -> 0
               [] Quarter(t) = 2 -> -1 [] Quarter(t) = 3 -> 0
np_sin(t) == CASE Quarter(t) = 0 -> 0 [] Quarter(t) = 1 -> 1
               [] Quarter(t) = 2 -> 0 [] Quarter(t) = 3 -> -1

\* numpy broadcasting of two one-dimensional arrays
BroadcastOk(a, b) == Len(a) = Len(b) \/ Len(a) = 1 \/ Len(b) = 1
BroadcastLen(a, b) == IF Len(a) = 1 THEN Len(b) ELSE Len(a)
At(a, i) == IF Len(a) = 1 THEN a[1] ELSE a[i]

\* lines 141-144: pairings = stack([rad * cos(theta), rad * sin(theta)])
Pairings(rad, theta) ==
    [i \in 1..BroadcastLen(rad, theta) |->
        <<At(rad, i).v * np_cos(At(theta, i).v),
          At(rad, i).v * np_sin(At(theta, i).v)>>]

Cross(p, q, r) ==
    (q[1] - p[1]) * (r[2] - p[2]) - (q[2] - p[2]) * (r[1] - p[1])

\* The system of a cubic kernel with its degree-1 polynomial is singular
\* when two sites coincide or all sites lie on one line.
Singular(y) ==
    \/ \E i, j \in 1..Len(y) : i # j /\ y[i] = y[j]
    \/ \A i, j, k \in 1..Len(y) : Cross(y[i], y[j], y[k]) = 0

\* RBFInterpolator(y, d, kernel='cubic'): the exception it raises, if any
RbfExc(y, d) ==
    IF Len(d) # Len(y) THEN Exc("ValueError", 150)
    ELSE IF Len(y) < 3 THEN Exc("ValueError", 150)
    ELSE IF Singular(y) THEN Exc("LinAlgError", 150)
    ELSE NoExc

\* The value of the fitted interpolant at a point is a term over the data
\* it was fitted to and the point.
rbf(y, d, pts) ==
    [k \in 1..Len(pts) |-> [y |-> y, d |-> d, at |-> pts[k]]]

RECURSIVE SeqMin(_)
SeqMin(a) == IF Len(a) = 1 THEN a[1]
             ELSE LET m == SeqMin(Tail(a)) IN IF a[1] <= m THEN a[1] ELSE m
RECURSIVE SeqMax(_)
SeqMax(a) == IF Len(a) = 1 THEN a[1]
             ELSE LET m == SeqMax(Tail(a)) IN IF a[1] >= m THEN a[1] ELSE m

\* A variant that accepts every num.
LinspaceAny(num) == TRUE

\* np.linspace raises ValueError for a negative num
LinspaceOk(num) == num >= 0

\* np.linspace(a, b, num)
np_linspace(a, b, num) ==
    IF num = 1 THEN <<a>>
    ELSE [i \in 1..num |-> a + ((i - 1) * (b - a)) \div (num - 1)]

\* A coordinate returned to the caller is a term: a rational over Den, or
\* np.sqrt or np.arctan2 of rationals.
Real(v) == [op |-> "num", a |-> v, b |-> 0]
np_sqrt(n) == [op |-> "sqrt", a |-> n, b |-> 0]
np_arctan2(y, x) == [op |-> "arctan2", a |-> y, b |-> x]

\* np.meshgrid(xd, yd): row i, column j holds (xd[j], yd[i])
x_grid(xd, yd) == [i \in 1..Len(yd) |-> [j \in 1..Len(xd) |-> Real(xd[j])]]
y_grid(xd, yd) == [i \in 1..Len(yd) |-> [j \in 1..Len(xd) |-> Real(yd[i])]]

\* np.stack([xg.ravel(), yg.ravel()], axis=-1)
grid_pairs(xg, yg) ==
    LET rows == Len(xg)
        cols == IF rows = 0 THEN 0 ELSE Len(xg[1])
    IN  [k \in 1..(rows * cols) |->
            <<xg[((k - 1) \div cols) + 1][((k - 1) % cols) + 1],
              yg[((k - 1) \div cols) + 1][((k - 1) % cols) + 1]>>]

\* flat.reshape(xg.shape)
reshape(flat, xg) ==
    [i \in 1..Len(xg) |->
        [j \in 1..Len(xg[i]) |-> flat[(i - 1) * Len(xg[i]) + j]]]


Elementwise2(Op(_, _), a, b) ==
    [i \in 1..Len(a) |-> [j \in 1..Len(a[i]) |-> Op(a[i][j], b[i][j])]]

\* lines 168-169, at one node of the mesh
R_of(x, y) == np_sqrt(x.a * x.a + y.a * y.a)
Theta_of(x, y) == np_arctan2(y.a, x.a)

NoGrid == [made |-> FALSE, polar_coords |-> FALSE, ptnum |-> 0,
           steps |-> <<>>, exc |-> NoExc,
           grid1 |-> <<>>, grid2 |-> <<>>, z |-> <<>>]

Column(pairs, c) == [i \in 1..Len(pairs) |-> pairs[i][c]]
Values(arr) == [i \in 1..Len(arr) |-> arr[i].v]

\* lines 154-156: the mesh over the bounding box of the sites
XGrid(pairings, ptnum) ==
    x_grid(np_linspace(SeqMin(Column(pairings, 1)),
                       SeqMax(Column(pairings, 1)), ptnum),
           np_linspace(SeqMin(Column(pairings, 2)),
                       SeqMax(Column(pairings, 2)), ptnum))
YGrid(pairings, ptnum) ==
    y_grid(np_linspace(SeqMin(Column(pairings, 1)),
                       SeqMax(Column(pairings, 1)), ptnum),
           np_linspace(SeqMin(Column(pairings, 2)),
                       SeqMax(Column(pairings, 2)), ptnum))

\* The call record of interp_grid(polar_coords, ptnum) before any stage
Called(polar_coords, ptnum) ==
    [NoGrid EXCEPT !.made = TRUE, !.polar_coords = polar_coords,
                   !.ptnum = ptnum]

\* A variant that interpolates at the returned coordinates, so that in polar
\* mode the interpolant is evaluated at (r, theta).
interp_grid_at_output(self, polar_coords, ptnum) ==
    LET call == Called(polar_coords, ptnum)
        pairings == Pairings(self.rad_arr, self.theta_arr)
        d == Values(self.thick_arr)
        xg == XGrid(pairings, ptnum)
        yg == YGrid(pairings, ptnum)
        g1 == IF polar_coords THEN Elementwise2(R_of, xg, yg) ELSE xg
        g2 == IF polar_coords THEN Elementwise2(Theta_of, xg, yg) ELSE yg
    IN  IF ~BroadcastOk(self.rad_arr, self.theta_arr)
          THEN [call EXCEPT !.exc = Exc("ValueError", 141)]
        ELSE IF RbfExc(pairings, d) # NoExc
          THEN [call EXCEPT !.steps = <<"cartesian">>,
                            !.exc = RbfExc(pairings, d)]
        ELSE IF ~LinspaceOk(ptnum)
          THEN [call EXCEPT !.steps = <<"cartesian", "fit">>,
                            !.exc = Exc("ValueError", 154)]
        ELSE [call EXCEPT
                  !.steps = <<"cartesian", "fit", "mesh", "evaluate">>
                            \o (IF polar_coords THEN <<"polar">> ELSE <<>>),
                  !.grid1 = g1, !.grid2 = g2,
                  !.z = reshape(rbf(pairings, d, grid_pairs(g1, g2)), xg)]

\* What a call of interp_grid on self does: the stages it performs, the
\* exception it raises, and the three arrays it returns.
interp_grid(self, polar_coords, ptnum) ==
    LET call == Called(polar_coords, ptnum)
        pairings == Pairings(self.rad_arr, self.theta_arr)
        d == Values(self.thick_arr)
        xg == XGrid(pairings, ptnum)
        yg == YGrid(pairings, ptnum)
        zz == reshape(rbf(pairings, d, grid_pairs(xg, yg)), xg)
    IN  IF ~BroadcastOk(self.rad_arr, self.theta_arr)
          THEN [call EXCEPT !.exc = Exc("ValueError", 141)]
        ELSE IF RbfExc(pairings, d) # NoExc
          THEN [call EXCEPT !.steps = <<"cartesian">>,
                            !.exc = RbfExc(pairings, d)]
        ELSE IF ~LinspaceOk(ptnum)
          THEN [call EXCEPT !.steps = <<"cartesian", "fit">>,
                            !.exc = Exc("ValueError", 154)]
        ELSE IF polar_coords
          THEN [call EXCEPT
                  !.steps = <<"cartesian", "fit", "mesh", "evaluate", "polar">>,
                  !.grid1 = Elementwise2(R_of, xg, yg),
                  !.grid2 = Elementwise2(Theta_of, xg, yg),
                  !.z = zz]
        ELSE [call EXCEPT
                  !.steps = <<"cartesian", "fit", "mesh", "evaluate">>,
                  !.grid1 = xg, !.grid2 = yg, !.z = zz]

-----------------------------------------------------------------------------
(* The state                                                               *)

VARIABLES
    all_content,  \* the text extracted from the pdf
    obj,          \* what the caller holds: "none", "EllipMap" or "raised"
    exc,          \* the exception of the last operation
    attrs,        \* the attributes assigned on self
    stddev, mean, rad_arr, theta_arr, thick_arr,
    matches_thick,  \* what re.findall returned at line 99, once it has run
    last,         \* the last call of interp_grid and what it returned
    saved         \* an earlier call of interp_grid, kept for comparison

self_vars == <<attrs, stddev, mean, rad_arr, theta_arr, thick_arr>>
grid_vars == <<last, saved>>
vars == <<all_content, obj, exc, self_vars, matches_thick, grid_vars>>

Self == [stddev |-> stddev, mean |-> mean, rad_arr |-> rad_arr,
         theta_arr |-> theta_arr, thick_arr |-> thick_arr]

Init ==
    /\ all_content \in Texts
    /\ obj = "none"
    /\ exc = NoExc
    /\ attrs = Blank.attrs
    /\ stddev = Blank.stddev
    /\ mean = Blank.mean
    /\ rad_arr = Blank.rad_arr
    /\ theta_arr = Blank.theta_arr
    /\ thick_arr = Blank.thick_arr
    /\ matches_thick = Blank.matches_thick
    /\ last = NoGrid
    /\ saved = NoGrid

\* EllipMap(pdfpath)
Construct ==
    /\ obj = "none"
    /\ LET s == EllipMap_init(all_content)
       IN  /\ exc' = s.exc
           /\ obj' = IF s.exc = NoExc THEN "EllipMap" ELSE "raised"
           /\ attrs' = s.attrs
           /\ stddev' = s.stddev
           /\ mean' = s.mean
           /\ rad_arr' = s.rad_arr
           /\ theta_arr' = s.theta_arr
           /\ thick_arr' = s.thick_arr
           /\ matches_thick' = s.matches_thick
    /\ UNCHANGED <<all_content, grid_vars>>

\* A variant that converts the coordinates in place: self.rad_arr receives
\* the x coordinates.
InterpGridInPlace(polar_coords, ptnum) ==
    /\ obj = "EllipMap"
    /\ last' = interp_grid(Self, polar_coords, ptnum)
    /\ exc' = last'.exc
    /\ saved' \in {saved} \cup (IF last.made /\ last.exc = NoExc THEN {last} ELSE {})
    /\ rad_arr' = IF BroadcastOk(rad_arr, theta_arr)
                  THEN [i \in 1..Len(Pairings(rad_arr, theta_arr)) |->
                           Num(Pairings(rad_arr, theta_arr)[i][1])]
                  ELSE rad_arr
    /\ UNCHANGED <<all_content, obj, attrs, stddev, mean, theta_arr,
                   thick_arr, matches_thick>>

\* self.interp_grid(polar_coords, ptnum); the caller may keep the grid the
\* previous call returned
InterpGrid(polar_coords, ptnum) ==
    /\ obj = "EllipMap"
    /\ last' = interp_grid(Self, polar_coords, ptnum)
    /\ exc' = last'.exc
    /\ saved' \in {saved} \cup (IF last.made /\ last.exc = NoExc THEN {last} ELSE {})
    /\ UNCHANGED <<all_content, obj, self_vars, matches_thick>>

Next ==
    \/ Construct
    \/ \E polar_coords \in BOOLEAN, ptnum \in -1..MaxP :
          InterpGrid(polar_coords, ptnum)

Spec == Init /\ [][Next]_vars

-----------------------------------------------------------------------------
(* Properties                                                              *)

Count(label) ==
    Cardinality({i \in 1..Len(all_content) : all_content[i].label = label})

IsItem(t) == t.label \in {"Thick1", "literal"}
\* the thickness items of the text, in document order
Items == SelectSeq(all_content, IsItem)

IsSampleTok(t) == t.label \notin {"StdDev", "Mean"}
Body == SelectSeq(all_content, IsSampleTok)

\* The text follows the report grammar: each summary statistic once, then
\* per sample R=, Theta= and a Thick1= reading or the phrase "No Solution".
WellFormed ==
    /\ Count("StdDev") = 1 /\ Count("Mean") = 1
    /\ Len(Body) % 3 = 0
    /\ \A k \in 1..(Len(Body) \div 3) :
         /\ Body[3 * k - 2].label = "R"
         /\ Body[3 * k - 1].label = "Theta"
         /\ \/ Body[3 * k].label = "Thick1"
            \/ Body[3 * k].label = "literal" /\ Body[3 * k].lit = "No Solution"

\* line 99 has run
Reached99 == obj # "none" /\ exc.line \notin {89, 90}

\* the thickness series before repair: an empty capture is a missing entry
Series ==
    [i \in 1..Len(matches_thick) |->
        IF matches_thick[i] = <<>> THEN NaN ELSE FloatOf(matches_thick[i])]

F(n) == Num(n * Den)

\* C1: for a well-formed text, a successful construction leaves rad_arr,
\* theta_arr and thick_arr of one length, index i of each being sample i.
C1_SameLength ==
    (obj = "EllipMap" /\ WellFormed) =>
        /\ Len(rad_arr) = Len(Body) \div 3
        /\ Len(theta_arr) = Len(rad_arr)
        /\ Len(thick_arr) = Len(rad_arr)
        /\ \A i \in 1..Len(rad_arr) :
             /\ rad_arr[i] = FloatOf(Body[3 * i - 2].cap)
             /\ Body[3 * i].label = "Thick1"
                  => thick_arr[i] = FloatOf(Body[3 * i].cap)

LeftValid(i) == {j \in 1..(i - 1) : ~Series[j].nan}
RightValid(i) == {j \in (i + 1)..Len(Series) : ~Series[j].nan}
Greatest(S) == CHOOSE j \in S : \A k \in S : k <= j
Least(S) == CHOOSE j \in S : \A k \in S : j <= k

C3_NoSolutionIsMissing ==
    (Reached99 /\ \A i \in 1..Len(Items) :
                    Items[i].label = "literal" => Items[i].lit = "No Solution")
    => /\ Len(matches_thick) = Len(Items)
       /\ \A i \in 1..Len(Items) :
            Items[i].label = "literal" => matches_thick[i] = <<>>

\* C4: a successful construction leaves no NaN in thick_arr.
C4_NoNaN ==
    obj = "EllipMap" => \A i \in 1..Len(thick_arr) : ~thick_arr[i].nan

C4_Witness ==
    /\ obj = "EllipMap"
    /\ Cardinality({i \in 1..Len(matches_thick) : matches_thick[i] = <<>>}) >= 2

\* C5 as stated: construction fails whenever the numbers of R= captures,
\* Theta= captures and thickness items disagree.
C5_FailsOnMismatch ==
    (obj # "none" /\ ~(Count("R") = Count("Theta") /\ Count("R") = Len(Items)))
    => obj = "raised"

MatchedItems ==
    Cardinality({i \in 1..Len(Items) :
        Items[i].label = "Thick1" \/ Items[i].lit = "No Soution"})

\* every capture converts, and the thickness series has a valid reading
Convertible ==
    /\ \E i \in 1..Len(all_content) :
         /\ all_content[i].label = "StdDev" /\ FloatOk(all_content[i].cap)
         /\ \A j \in 1..(i - 1) : all_content[j].label # "StdDev"
    /\ \E i \in 1..Len(all_content) :
         /\ all_content[i].label = "Mean" /\ FloatOk(all_content[i].cap)
         /\ \A j \in 1..(i - 1) : all_content[j].label # "Mean"
    /\ \A i \in 1..Len(all_content) :
         all_content[i].label \in {"R", "Theta", "Thick1"}
            => FloatOk(all_content[i].cap)
    /\ \E i \in 1..Len(all_content) : all_content[i].label = "Thick1"
    /\ (\E i \in 1..Len(Items) : Items[i].lit = "No Soution")
         => \E i \in 1..Len(Items) : Len(Items[i].cap) >= 3

\* C5, amended: the lengths are not compared.  Construction succeeds exactly
\* when every capture converts and a thickness reading is valid, and each
\* array then has the length of its own matches, equal or not.
C5_NoLengthCheck ==
    obj # "none" =>
        /\ obj = "EllipMap" <=> Convertible
        /\ obj = "EllipMap" =>
             /\ Len(rad_arr) = Count("R")
             /\ Len(theta_arr) = Count("Theta")
             /\ Len(thick_arr) = MatchedItems

C5_Witness ==
    /\ obj = "EllipMap"
    /\ Len(rad_arr) # Len(theta_arr)
    /\ Len(rad_arr) # Len(thick_arr)

MeanAbsent == Count("Mean") = 0

\* C6 as stated: without the label "Mean" construction fails with an error
\* that names "Mean", and the caller receives no object.
C6_ErrorNamesMean ==
    (obj # "none" /\ MeanAbsent) => (obj = "raised" /\ "Mean" \in exc.labels)

\* C6, amended: without the label "Mean" construction fails and the caller
\* receives no object; the error is the AttributeError of None.group at
\* line 90, or the error of the StdDev line 89 when that fails first, and it
\* names no label.
C6_FailsWithoutMean ==
    (obj # "none" /\ MeanAbsent) =>
        /\ obj = "raised"
        /\ exc.labels = {}
        /\ \/ exc = Exc("AttributeError", 90) /\ attrs = {"stddev"}
           \/ exc.line = 89 /\ exc.type \in {"AttributeError", "ValueError"}
                            /\ attrs = {}

C6_Witness ==
    /\ obj = "raised"
    /\ MeanAbsent
    /\ exc.line = 90
    /\ Count("R") >= 1 /\ Count("Thick1") >= 1

\* C7 as stated: a call with ptnum < 1 raises before any stage has run (here
\* on a report for which an earlier call has returned a grid).
C7_RejectedFirst ==
    (saved.made /\ last.made /\ last.ptnum < 1)
    => (last.exc # NoExc /\ last.steps = <<>>)

\* C7, amended: a call with a negative ptnum raises and returns no grid, but
\* ptnum is first examined by np.linspace at line 154, after the conversion
\* to Cartesian coordinates and the fit of the interpolant; a failure of
\* those stages is raised instead.
C7_NegativeRejectedAtMesh ==
    (last.made /\ last.ptnum < 0) =>
        /\ last.exc # NoExc
        /\ last.grid1 = <<>> /\ last.grid2 = <<>> /\ last.z = <<>>
        /\ \/ last.exc.line = 154 /\ last.steps = <<"cartesian", "fit">>
           \/ last.exc.line = 150 /\ last.steps = <<"cartesian">>
           \/ last.exc.line = 141 /\ last.steps = <<>>

C7_Witness ==
    /\ last.made /\ last.ptnum < 0
    /\ last.exc = Exc("ValueError", 154)
    /\ last.steps = <<"cartesian", "fit">>

SameArgs(a, b) == a.polar_coords = b.polar_coords /\ a.ptnum = b.ptnum

\* C8: no call of interp_grid, failing or not, changes stddev, mean, rad_arr,
\* theta_arr or thick_arr, and a call returns what an earlier call with the
\* same arguments returned.
C8_NoSideEffects ==
    [][obj = "EllipMap" =>
          /\ UNCHANGED self_vars
          /\ (saved'.made /\ SameArgs(saved', last')) => last' = saved']_vars

C8_Witness ==
    /\ saved.made /\ last.made
    /\ SameArgs(saved, last)
    /\ last.ptnum >= 2
    /\ last.z # <<>>

\* C9: for one report and one ptnum the two modes return the same z,
\* evaluated at the nodes of the Cartesian mesh over the bounding box of the
\* sites; the polar coordinate arrays are (r, theta) of those nodes.
C9_ModeIndependent ==
    (saved.made /\ last.made /\ last.exc = NoExc
       /\ saved.ptnum = last.ptnum /\ saved.polar_coords # last.polar_coords)
    => LET cart == IF saved.polar_coords THEN last ELSE saved
           pol == IF saved.polar_coords THEN saved ELSE last
           n == last.ptnum
       IN  /\ cart.z = pol.z
           /\ Len(cart.z) = n /\ Len(pol.grid1) = n /\ Len(pol.grid2) = n
           /\ \A i, j \in 1..n :
                LET x == cart.grid1[i][j]
                    y == cart.grid2[i][j]
                    sites == cart.z[i][j].y
                IN  /\ x.op = "num" /\ y.op = "num"
                    /\ cart.z[i][j].at = <<x, y>>
                    /\ pol.grid1[i][j] = np_sqrt(x.a * x.a + y.a * y.a)
                    /\ pol.grid2[i][j] = np_arctan2(y.a, x.a)
                    /\ \A k \in 1..Len(sites) :
                         /\ cart.grid1[1][1].a <= sites[k][1]
                         /\ cart.grid2[1][1].a <= sites[k][2]
                         /\ n >= 2 => /\ sites[k][1] <= cart.grid1[n][n].a
                                      /\ sites[k][2] <= cart.grid2[n][n].a

C9_Witness ==
    /\ saved.made /\ last.made /\ last.exc = NoExc
    /\ saved.ptnum = last.ptnum /\ last.ptnum >= 2
    /\ saved.polar_coords # last.polar_coords

\* C10: when every thickness item is a Thick1= capture or the phrase as the
\* pattern spells it, re.findall returns one entry per item in document
\* order: the empty string exactly for the phrases, the capture otherwise.
C10_Aligned ==
    (Reached99 /\ \A i \in 1..Len(Items) :
                    Items[i].label = "literal" => Items[i].lit = "No Soution")
    => /\ Len(matches_thick) = Len(Items)
       /\ \A i \in 1..Len(Items) :
            /\ matches_thick[i] = <<>> <=> Items[i].label = "literal"
            /\ Items[i].label = "Thick1" => matches_thick[i] = Items[i].cap

C10_Witness ==
    /\ Reached99
    /\ \A i \in 1..Len(Items) :
         Items[i].label = "literal" => Items[i].lit = "No Soution"
    /\ Len(matches_thick) >= 3
    /\ matches_thick[1] = <<>> /\ matches_thick[2] = <<>>
    /\ matches_thick[3] # <<>>

====
